---- MODULE Spec2Model ----
(***************************************************************************)
(* Control loops of the essay-writer-agent lessons.                        *)
(*                                                                         *)
(*   Lesson 1: the ReAct loop `query` built on `Agent`, the regular        *)
(*             expression `action_re` and the registry `known_actions`.    *)
(*   Lesson 6: the LangGraph workflow planner -> research_plan ->          *)
(*             generate -> (reflect -> research_critique -> generate)*.    *)
(*                                                                         *)
(* Text is a sequence of one-character strings, so that splitting,         *)
(* matching and slicing are computed the way the Python code computes      *)
(* them.  Python's None (and a value that is absent) is the empty          *)
(* sequence <<>>, a present value x is <<x>>.                              *)
(***************************************************************************)
EXTENDS Integers, Sequences, FiniteSets, TLC

VARIABLES
    \* ---- Lesson 1: query(question, max_turns) ----
    question,       \* argument of query
    max_turns,      \* argument of query
    i,              \* loop counter of query
    next_prompt,    \* local of query
    messages,       \* bot.messages, the session of the Agent
    pc,             \* position of query
    result,         \* local of query: text of the last model response
    action,         \* local of query: name of the action being dispatched
    action_input,   \* local of query: its argument
    ret,            \* what query returned: <<>> is None
    err,            \* the exception that left query, <<>> when none
    stop,           \* history: why query stopped, "" while it runs
    prev,           \* history: <<>>, or how the previous call of query ended
    modelCalls,     \* history: number of bedrock converse calls made
    actionLog,      \* history: the actions executed, in order
    sent,           \* history: the session as each converse call received it
    replies,        \* history: the text each converse call returned
    \* ---- action_re on one line ----
    line_in,        \* the line handed to action_re.match, with its parts
    line_out,       \* the match list, <<>> before the match is made
    line_pc,
    \* ---- Lesson 6: from the model text to the query list ----
    queries_text,   \* the text of the model response
    parsed_queries, \* what the parse gave, <<>> before it is made
    extract_pc,
    \* ---- Lesson 6: the compiled graph ----
    state,          \* AgentState
    node,           \* the node to execute next, or END / "failed" / "idle"
    trace,          \* history: the nodes executed, in order
    tavily_results, \* what tavily.search returns for each query string
    retrievals,     \* history: the tavily.search calls made, in order
    genLog,         \* history: revision_number after each generate
    wf_err,         \* the exception that left graph.stream, <<>> when none
    wfModelCalls,   \* history: number of model.invoke calls made
    texts,          \* history: the model text each research node execution got
    start_revision  \* history: revision_number the run started with

reactVars == <<question, max_turns, i, next_prompt, messages, pc, result,
               action, action_input, ret, err, stop, prev, modelCalls,
               actionLog, sent, replies>>
parseVars == <<line_in, line_out, line_pc, queries_text, parsed_queries,
               extract_pc>>
wfVars    == <<state, node, trace, tavily_results, retrievals, genLog, wf_err,
               wfModelCalls, texts, start_revision>>
vars      == <<reactVars, parseVars, wfVars>>

None == <<>>
Some(x) == <<x>>

(***************************************************************************)
(* Bounds of the model.                                                    *)
(***************************************************************************)
MaxTurns == 3          \* largest max_turns a run is started with
MaxArgLen == 3         \* longest argument text of a generated directive line
MaxRevisions == 2      \* largest max_revisions a workflow run is started with

(***************************************************************************)
(* Text helpers (Python str operations).                                   *)
(***************************************************************************)
NL == "\n"

StartsWith(s, p) ==
    /\ Len(s) >= Len(p)
    /\ SubSeq(s, 1, Len(p)) = p

\* s[k:] for a 0-based k in 0..len(s)
Drop(s, k) == SubSeq(s, k + 1, Len(s))

\* the 1-based positions of c in s
Positions(s, c) == {k \in 1..Len(s) : s[k] = c}

Min(S) == CHOOSE k \in S : \A j \in S : k <= j
Max(S) == CHOOSE k \in S : \A j \in S : k >= j

\* str.find(c): 0-based index of the first c, -1 when there is none
Find(s, c) ==
    IF Positions(s, c) = {} THEN -1 ELSE Min(Positions(s, c)) - 1

\* str.rfind(c): 0-based index of the last c, -1 when there is none
RFind(s, c) ==
    IF Positions(s, c) = {} THEN -1 ELSE Max(Positions(s, c)) - 1

\* needle in haystack, for two str
Contains(haystack, needle) ==
    \E k \in 0..(Len(haystack) - Len(needle)) :
        SubSeq(haystack, k + 1, k + Len(needle)) = needle

RECURSIVE Split(_)
\* str.split("\n"): always at least one piece
Split(s) ==
    LET k == Find(s, NL)
    IN  IF k = -1 THEN <<s>>
        ELSE <<SubSeq(s, 1, k)>> \o Split(Drop(s, k + 1))

RECURSIVE Join(_)
\* "\n".join(lines)
Join(lines) ==
    IF lines = <<>> THEN <<>>
    ELSE IF Len(lines) = 1 THEN lines[1]
    ELSE lines[1] \o <<NL>> \o Join(Tail(lines))

Whitespace == {" ", "\t", NL, "\r"}

RECURSIVE LStrip(_)
LStrip(s) == IF s # <<>> /\ s[1] \in Whitespace THEN LStrip(Tail(s)) ELSE s

RECURSIVE RStrip(_)
RStrip(s) ==
    IF s # <<>> /\ s[Len(s)] \in Whitespace THEN RStrip(SubSeq(s, 1, Len(s) - 1)) ELSE s

\* str.strip()
Strip(s) == LStrip(RStrip(s))

(***************************************************************************)
(* action_re: the line starts with "Action: ", then a name of one or more  *)
(* word characters, then ": ", then the argument up to the end of the line. *)
(***************************************************************************)
Lower == {"a", "b", "c", "d", "e", "f", "g", "h", "i", "j", "k", "l", "m",
          "n", "o", "p", "q", "r", "s", "t", "u", "v", "w", "x", "y", "z"}
Upper == {"A", "B", "C", "D", "E", "F", "G", "H", "I", "J", "K", "L", "M",
          "N", "O", "P", "Q", "R", "S", "T", "U", "V", "W", "X", "Y", "Z"}
Digit == {"0", "1", "2", "3", "4", "5", "6", "7", "8", "9"}
\* the word characters of the regular expression
WordChars == Lower \cup Upper \cup Digit \cup {"_"}

ActionPrefix == <<"A", "c", "t", "i", "o", "n", ":", " ">>
ColonSpace == <<":", " ">>

\* length of the longest prefix of s made of word characters: what the name
\* group takes
WordRun(s) ==
    LET stops == {k \in 1..Len(s) : s[k] \notin WordChars}
    IN  IF stops = {} THEN Len(s) ELSE Min(stops) - 1

\* the mutated group: the argument with surrounding whitespace removed
RestGroupTrimmed(t) ==
    LET k == Find(t, NL)
    IN  IF k = -1 THEN Some(Strip(t))
        ELSE IF k = Len(t) - 1 THEN Some(Strip(SubSeq(t, 1, k)))
        ELSE None

\* the second group and the end anchor on the text t that follows
\* "Action: <name>: ": the group takes any characters but a newline, and the
\* anchor is the end of the text or the place before a final newline.
\* <<>> when it cannot match, else <<the group>>.
RestGroup(t) ==
    LET k == Find(t, NL)
    IN  IF k = -1 THEN Some(t)
        ELSE IF k = Len(t) - 1 THEN Some(SubSeq(t, 1, k))
        ELSE None

\* action_re.match(a): <<>> for None, else <<the match>> with its two groups
\* name and arg.  The name group is greedy and ":" is no word character, so the
\* name is the whole run of word characters after the prefix and no
\* backtracking finds another match.
action_re_match(a) ==
    IF ~StartsWith(a, ActionPrefix) THEN None
    ELSE LET rest == Drop(a, Len(ActionPrefix))
             n    == WordRun(rest)
         IN  IF n = 0 THEN None
             ELSE IF ~StartsWith(Drop(rest, n), ColonSpace) THEN None
             ELSE LET g == RestGroup(Drop(rest, n + Len(ColonSpace)))
                  IN  IF g = None THEN None
                      ELSE Some([name |-> SubSeq(rest, 1, n), arg |-> g[1]])

RECURSIVE MatchesOf(_)
MatchesOf(lines) ==
    IF lines = <<>> THEN <<>>
    ELSE action_re_match(lines[1]) \o MatchesOf(Tail(lines))

\* actions = [action_re.match(a) for a in result.split("\n") if action_re.match(a)]
actions_of(text) == MatchesOf(Split(text))

\* the mutated pick: the last matching line instead of the first
PickLast(actions) == actions[Len(actions)]

\* actions[0]
PickAction(actions) == actions[1]

(***************************************************************************)
(* Lesson 1: the registry and its two callables.                           *)
(***************************************************************************)
Value(text) == [kind |-> "value", text |-> text]
Raised(type) == [kind |-> "raise", text |-> type]

\* calculate(what) is eval(what): the Python interpreter decides.  The
\* expressions of the catalogue below have the value Python gives them; any
\* other text either evaluates to something or raises.
calculate(what) ==
    IF what = <<"4", " ", "*", " ", "7">> THEN {Value(<<"2", "8">>)}
    ELSE IF what = <<"1">> THEN {Value(<<"1">>)}
    ELSE IF what = <<"1", "/", "0">> THEN {Raised("ZeroDivisionError")}
    ELSE {Value(<<"0">>), Raised("SyntaxError")}

\* average_dog_weight(name): `in` is the substring test of str
average_dog_weight(name) ==
    IF Contains(<<"S", "c", "o", "t", "t", "i", "s", "h", " ", "T", "e", "r", "r", "i", "e", "r">>, name)
    THEN <<"S", "c", "o", "t", "t", "i", "s", "h", " ", "T", "e", "r", "r", "i", "e", "r", "s", " ", "a", "v", "e", "r", "a", "g", "e", " ", "2", "0", " ", "l", "b", "s">>
    ELSE IF Contains(<<"B", "o", "r", "d", "e", "r", " ", "C", "o", "l", "l", "i", "e">>, name)
    THEN <<"a", " ", "B", "o", "r", "d", "e", "r", " ", "C", "o", "l", "l", "i", "e", "s", " ", "a", "v", "e", "r", "a", "g", "e", " ", "w", "e", "i", "g", "h", "t", " ", "i", "s", " ", "3", "7", " ", "l", "b", "s">>
    ELSE IF Contains(<<"T", "o", "y", " ", "P", "o", "o", "d", "l", "e">>, name)
    THEN <<"a", " ", "t", "o", "y", " ", "p", "o", "o", "d", "l", "e", "s", " ", "a", "v", "e", "r", "a", "g", "e", " ", "w", "e", "i", "g", "h", "t", " ", "i", "s", " ", "7", " ", "l", "b", "s">>
    ELSE <<"A", "n", " ", "a", "v", "e", "r", "a", "g", "e", " ", "d", "o", "g", " ", "w", "e", "i", "g", "h", "t", "s", " ", "5", "0", " ", "l", "b", "s">>

name_calculate == <<"c", "a", "l", "c", "u", "l", "a", "t", "e">>
name_average_dog_weight == <<"a", "v", "e", "r", "a", "g", "e", "_", "d", "o", "g", "_", "w", "e", "i", "g", "h", "t">>

\* the keys of known_actions
known_actions == {name_calculate, name_average_dog_weight}

AlphabetLower == <<"a", "b", "c", "d", "e", "f", "g", "h", "i", "j", "k", "l", "m", "n", "o", "p", "q", "r", "s", "t", "u", "v", "w", "x", "y", "z">>
AlphabetUpper == <<"A", "B", "C", "D", "E", "F", "G", "H", "I", "J", "K", "L", "M", "N", "O", "P", "Q", "R", "S", "T", "U", "V", "W", "X", "Y", "Z">>

\* str.lower()
ToLower(s) ==
    [k \in 1..Len(s) |->
        IF \E j \in 1..26 : AlphabetUpper[j] = s[k]
        THEN AlphabetLower[CHOOSE j \in 1..26 : AlphabetUpper[j] = s[k]]
        ELSE s[k]]

\* the mutated lookup: letter case is ignored
KnownActionAnyCase(name) == ToLower(name) \in known_actions

\* the mutated lookup: every name passes
KnownActionAlways(name) == TRUE

\* action in known_actions
KnownAction(name) == name \in known_actions

\* known_actions[action](action_input): the outcomes the call can have
CallAction(name, arg) ==
    IF name = name_calculate THEN calculate(arg)
    ELSE IF name = name_average_dog_weight THEN {Value(average_dog_weight(arg))}
    ELSE {Raised("KeyError")}

\* the mutated format: the bare result, no prefix
FormatObservationBare(observation) == observation

\* "Observation: {}".format(observation)
FormatObservation(observation) == <<"O", "b", "s", "e", "r", "v", "a", "t", "i", "o", "n", ":", " ">> \o observation

\* "Unknown action: {}: {}".format(action, action_input)
UnknownActionMessage(name, arg) == <<"U", "n", "k", "n", "o", "w", "n", " ", "a", "c", "t", "i", "o", "n", ":", " ">> \o name \o ColonSpace \o arg

(***************************************************************************)
(* The texts the runs are fed.                                             *)
(***************************************************************************)
Questions == {<<"H", "o", "w", " ", "m", "u", "c", "h", " ", "d", "o", "e", "s", " ", "a", " ", "t", "o", "y", " ", "p", "o", "o", "d", "l", "e", " ", "w", "e", "i", "g", "h", "?">>, <<"h", "i">>}

line_answer  == <<"A", "n", "s", "w", "e", "r", ":", " ", "7">>
line_thought == <<"T", "h", "o", "u", "g", "h", "t", ":", " ", "x">>
line_pause   == <<"P", "A", "U", "S", "E">>
line_poodle  == <<"A", "c", "t", "i", "o", "n", ":", " ", "a", "v", "e", "r", "a", "g", "e", "_", "d", "o", "g", "_", "w", "e", "i", "g", "h", "t", ":", " ", "T", "o", "y", " ", "P", "o", "o", "d", "l", "e">>
line_calc    == <<"A", "c", "t", "i", "o", "n", ":", " ", "c", "a", "l", "c", "u", "l", "a", "t", "e", ":", " ", "4", " ", "*", " ", "7">>
line_div0    == <<"A", "c", "t", "i", "o", "n", ":", " ", "c", "a", "l", "c", "u", "l", "a", "t", "e", ":", " ", "1", "/", "0">>
line_fly     == <<"A", "c", "t", "i", "o", "n", ":", " ", "f", "l", "y", ":", " ", "t", "o", " ", "t", "h", "e", " ", "m", "o", "o", "n">>
line_upper   == <<"A", "c", "t", "i", "o", "n", ":", " ", "C", "a", "l", "c", "u", "l", "a", "t", "e", ":", " ", "1">>
line_indent  == <<" ", "A", "c", "t", "i", "o", "n", ":", " ", "c", "a", "l", "c", "u", "l", "a", "t", "e", ":", " ", "1">>

\* what the model may answer: texts with no directive, with one, with several,
\* with an unknown name first or last, and the empty text
ModelResponses ==
    { Join(ls) : ls \in {
        <<line_answer>>,
        <<line_thought, line_indent, line_pause>>,
        <<>>,
        <<line_thought, line_poodle, line_pause>>,
        <<line_calc>>,
        <<line_div0>>,
        <<line_fly>>,
        <<line_upper>>,
        <<line_fly, line_calc>>,
        <<line_poodle, line_calc>>,
        <<line_calc, line_thought, line_fly>> } }

(***************************************************************************)
(* Lesson 1: Agent and query.                                              *)
(*                                                                         *)
(* query is cut where it waits for the outside: at the bedrock converse    *)
(* call inside Agent.execute and at the call of the registered callable.   *)
(***************************************************************************)
\* the mutated append of the response: filed under the user role
AssistantMessageAsUser(text) == [role |-> "user", text |-> text]

UserMessage(text) == [role |-> "user", text |-> text]
AssistantMessage(text) == [role |-> "assistant", text |-> text]

\* the mutated request: only the newest message is sent
RequestNewestOnly(msgs) == <<msgs[Len(msgs)]>>

\* converse(messages=self.messages, ...): the request carries the session
Request(msgs) == msgs

\* the mutated loop test: one turn too many
LoopConditionInclusive(n, limit) == n <= limit

\* while i < max_turns
LoopCondition(n, limit) == n < limit

\* the bare `return` of the else branch: None, whatever the response was
ReturnOfAnswer(text) == None

\* falling off the end of the while loop: None
ReturnOfLimit == None

\* What query does with the text the model returned, up to the call of the
\* registered callable: where it goes next and what it holds then.
Dispatch(text) ==
    LET actions == actions_of(text)
    IN  IF actions # <<>>
        THEN LET m == PickAction(actions)
             IN  IF ~KnownAction(m.name)
                 THEN [pc |-> "raised", stop |-> "unknown_action",
                       action |-> m.name, action_input |-> m.arg,
                       err |-> Some([type |-> "Exception",
                                     message |-> UnknownActionMessage(m.name, m.arg)]),
                       ret |-> None]
                 ELSE [pc |-> "act", stop |-> "",
                       action |-> m.name, action_input |-> m.arg,
                       err |-> None, ret |-> None]
        ELSE [pc |-> "returned", stop |-> "no_action",
              action |-> action, action_input |-> action_input,
              err |-> None, ret |-> ReturnOfAnswer(text)]

ReactInit ==
    /\ question \in Questions
    /\ max_turns \in (-1)..MaxTurns
    /\ i = 0
    /\ next_prompt = question
    /\ messages = <<>>
    /\ pc = "loop"
    /\ result = None
    /\ action = None
    /\ action_input = None
    /\ ret = None
    /\ err = None
    /\ stop = ""
    /\ prev = None
    /\ modelCalls = 0
    /\ actionLog = <<>>
    /\ sent = <<>>
    /\ replies = <<>>

\* the loop test holds: i += 1, then bot(next_prompt) appends the user
\* message and calls converse
query_turn ==
    /\ pc = "loop"
    /\ LoopCondition(i, max_turns)
    /\ i' = i + 1
    /\ messages' = Append(messages, UserMessage(next_prompt))
    /\ modelCalls' = modelCalls + 1
    /\ pc' = "converse"
    /\ sent' = Append(sent, Request(messages'))
    /\ UNCHANGED replies
    /\ UNCHANGED <<question, max_turns, next_prompt, result, action, action_input,
                   ret, err, stop, prev, actionLog>>
    /\ UNCHANGED <<parseVars, wfVars>>

\* the mutated exit: the failed loop test leaves query at the loop head
query_limit_spins ==
    /\ pc = "loop"
    /\ ~LoopCondition(i, max_turns)
    /\ UNCHANGED <<reactVars, parseVars, wfVars>>

\* the loop test fails: query falls off its end
query_limit ==
    /\ pc = "loop"
    /\ ~LoopCondition(i, max_turns)
    /\ pc' = "returned"
    /\ stop' = "turn_limit"
    /\ ret' = ReturnOfLimit
    /\ UNCHANGED <<question, max_turns, i, next_prompt, messages, result, action,
                   action_input, err, prev, modelCalls, actionLog>>
    /\ UNCHANGED <<sent, replies, parseVars, wfVars>>

\* converse returns a text: Agent.__call__ appends it, query parses it
converse_returns ==
    /\ pc = "converse"
    /\ \E text \in ModelResponses :
        LET d == Dispatch(text)
        IN  /\ messages' = Append(messages, AssistantMessage(text))
            /\ result' = Some(text)
            /\ replies' = Append(replies, text)
            /\ pc' = d.pc
            /\ stop' = d.stop
            /\ action' = d.action
            /\ action_input' = d.action_input
            /\ err' = d.err
            /\ ret' = d.ret
    /\ UNCHANGED <<question, max_turns, i, next_prompt, prev, modelCalls, actionLog>>
    /\ UNCHANGED <<sent, parseVars, wfVars>>

\* converse raises: nothing catches it
converse_fails ==
    /\ pc = "converse"
    /\ pc' = "raised"
    /\ stop' = "transport"
    /\ err' = Some([type |-> "ClientError", message |-> <<>>])
    /\ UNCHANGED <<question, max_turns, i, next_prompt, messages, result, action,
                   action_input, ret, prev, modelCalls, actionLog>>
    /\ UNCHANGED <<sent, replies, parseVars, wfVars>>

\* the registered callable returns: its result becomes the next prompt
action_returns ==
    /\ pc = "act"
    /\ \E o \in CallAction(action, action_input) :
        /\ o.kind = "value"
        /\ next_prompt' = FormatObservation(o.text)
        /\ actionLog' = Append(actionLog, [turn |-> i, name |-> action,
                                           arg |-> action_input, out |-> o])
    /\ pc' = "loop"
    /\ UNCHANGED <<question, max_turns, i, messages, result, action, action_input,
                   ret, err, stop, prev, modelCalls>>
    /\ UNCHANGED <<sent, replies, parseVars, wfVars>>

\* the registered callable raises: nothing catches it
action_raises ==
    /\ pc = "act"
    /\ \E o \in CallAction(action, action_input) :
        /\ o.kind = "raise"
        /\ err' = Some([type |-> o.text, message |-> <<>>])
        /\ actionLog' = Append(actionLog, [turn |-> i, name |-> action,
                                           arg |-> action_input, out |-> o])
    /\ pc' = "raised"
    /\ stop' = "action_error"
    /\ UNCHANGED <<question, max_turns, i, next_prompt, messages, result, action,
                   action_input, ret, prev, modelCalls>>
    /\ UNCHANGED <<sent, replies, parseVars, wfVars>>

\* the caller calls query once more: a new Agent, a new session
query_again ==
    /\ pc \in {"returned", "raised"}
    /\ prev = None
    /\ prev' = Some([stop |-> stop, ret |-> ret, raised |-> (pc = "raised")])
    /\ question' \in Questions
    /\ max_turns' \in (-1)..MaxTurns
    /\ i' = 0
    /\ next_prompt' = question'
    /\ messages' = <<>>
    /\ pc' = "loop"
    /\ result' = None
    /\ action' = None
    /\ action_input' = None
    /\ ret' = None
    /\ err' = None
    /\ stop' = ""
    /\ modelCalls' = 0
    /\ actionLog' = <<>>
    /\ sent' = <<>>
    /\ replies' = <<>>
    /\ UNCHANGED <<parseVars, wfVars>>

ReactIdle ==
    /\ question = <<>>
    /\ max_turns = 0
    /\ i = 0
    /\ next_prompt = <<>>
    /\ messages = <<>>
    /\ pc = "idle"
    /\ result = None
    /\ action = None
    /\ action_input = None
    /\ ret = None
    /\ err = None
    /\ stop = ""
    /\ prev = None
    /\ modelCalls = 0
    /\ actionLog = <<>>
    /\ sent = <<>>
    /\ replies = <<>>

ExtractIdle ==
    /\ queries_text = <<>>
    /\ parsed_queries = <<>>
    /\ extract_pc = "idle"

ParseIdle ==
    /\ line_in = <<>>
    /\ line_out = <<>>
    /\ line_pc = "idle"
    /\ ExtractIdle

WfIdle ==
    /\ state = <<>>
    /\ node = "idle"
    /\ trace = <<>>
    /\ tavily_results = <<>>
    /\ retrievals = <<>>
    /\ genLog = <<>>
    /\ wf_err = None
    /\ wfModelCalls = 0
    /\ texts = <<>>
    /\ start_revision = 0

ReactNext ==
    \/ query_turn
    \/ query_limit
    \/ converse_returns
    \/ converse_fails
    \/ action_returns
    \/ action_raises
    \/ query_again

InitReact == ReactInit /\ ParseIdle /\ WfIdle

SpecReact == InitReact /\ [][ReactNext]_vars

(***************************************************************************)
(* Claims about the ReAct loop (checked under SpecReact).                  *)
(***************************************************************************)
Stopped == pc \in {"returned", "raised"}

\* the model response of turn t of the running call, as the session holds it
ResponseOfTurn(t) == messages[2 * t].text

\* the turns whose model response has arrived
AnsweredTurns == {t \in 1..i : 2 * t <= Len(messages)}

\* the first line of turn t's response that matches the grammar names a
\* registered action
FirstDirectiveRegistered(t) ==
    /\ actions_of(ResponseOfTurn(t)) # <<>>
    /\ actions_of(ResponseOfTurn(t))[1].name \in known_actions

\* the first line of turn t's response that matches the grammar names an
\* action the registry does not hold
FirstDirectiveUnregistered(t) ==
    /\ actions_of(ResponseOfTurn(t)) # <<>>
    /\ actions_of(ResponseOfTurn(t))[1].name \notin known_actions

\* every one of the first max_turns responses arrived and holds a directive
\* for a registered action
AllTurnsDirected ==
    /\ max_turns >= 1
    /\ AnsweredTurns = 1..max_turns
    /\ \A t \in 1..max_turns : FirstDirectiveRegistered(t)

\* C4: for every turn limit N and every sequence of model responses, one run
\* of the loop makes at most N model invocations (none at all when N is not
\* positive).
C4_AtMostNInvocations ==
    modelCalls <= (IF max_turns < 0 THEN 0 ELSE max_turns)

C4_Witness ==
    /\ max_turns = MaxTurns
    /\ modelCalls = max_turns
    /\ stop = "turn_limit"

C6_AsStated ==
    (/\ prev # None
     /\ pc = "returned"
     /\ ~prev[1].raised
     /\ {stop, prev[1].stop} = {"turn_limit", "no_action"})
    => ret # prev[1].ret

\* C7 as stated: a response with no matching line ends the run in that turn,
\* with no action executed for it and no exception, and the result of the run
\* is the full text of that response; no other stop gives an answer.
C7_AsStated ==
    /\ stop = "no_action" =>
        /\ pc = "returned"
        /\ err = None
        /\ AnsweredTurns = 1..i
        /\ i >= 1
        /\ actions_of(ResponseOfTurn(i)) = <<>>
        /\ \A k \in 1..Len(actionLog) : actionLog[k].turn < i
        /\ modelCalls = i
        /\ ret = Some(ResponseOfTurn(i))
    /\ (Stopped /\ stop # "no_action") => ret = None

\* C8: when the first directive of a response names an action the registry
\* does not hold, the run is aborted by the exception "Unknown action: <name>:
\* <argument>", no action is executed for that turn, and the run makes no
\* further step: no model invocation and no action execution follows.
C8_UnknownActionAborts ==
    /\ [](\A t \in AnsweredTurns :
            FirstDirectiveUnregistered(t) =>
                /\ t = i
                /\ pc = "raised"
                /\ stop = "unknown_action"
                /\ err = Some([type |-> "Exception",
                               message |-> UnknownActionMessage(
                                   actions_of(ResponseOfTurn(t))[1].name,
                                   actions_of(ResponseOfTurn(t))[1].arg)])
                /\ modelCalls = t
                /\ \A k \in 1..Len(actionLog) : actionLog[k].turn < t)
    /\ [][stop = "unknown_action" => (prev = None /\ prev' # None)]_vars

C8_Witness ==
    /\ stop = "unknown_action"
    /\ i >= 2
    /\ Len(actions_of(ResponseOfTurn(i))) >= 2

\* C9: of the lines of one response that match the grammar only the first
\* counts: each turn executes at most one action, the action and argument of
\* the first matching line, and a response whose first matching line names an
\* unregistered action fails the run even when a later line names a
\* registered one.
C9_FirstMatchWins ==
    /\ \A k \in 1..Len(actionLog) :
        LET e == actionLog[k]
        IN  /\ e.turn \in AnsweredTurns
            /\ e.name = actions_of(ResponseOfTurn(e.turn))[1].name
            /\ e.arg = actions_of(ResponseOfTurn(e.turn))[1].arg
            /\ \A j \in 1..Len(actionLog) : actionLog[j].turn = e.turn => j = k
    /\ \A t \in AnsweredTurns :
        FirstDirectiveUnregistered(t) =>
            /\ stop = "unknown_action"
            /\ \A k \in 1..Len(actionLog) : actionLog[k].turn # t
    /\ pc = "act" =>
        /\ action = actions_of(ResponseOfTurn(i))[1].name
        /\ action_input = actions_of(ResponseOfTurn(i))[1].arg

\* a response with two different directives was dispatched, and one with an
\* unregistered name before a registered one failed the run
C9_Witness ==
    /\ Len(actionLog) >= 1
    /\ Len(actions_of(ResponseOfTurn(1))) >= 2
    /\ actions_of(ResponseOfTurn(1))[1] # actions_of(ResponseOfTurn(1))[2]
    /\ stop = "unknown_action"
    /\ Len(actions_of(ResponseOfTurn(i))) >= 2
    /\ actions_of(ResponseOfTurn(i))[2].name \in known_actions

\* the turns of the running call whose action step is over
ActedTurns ==
    {t \in AnsweredTurns : t < i \/ pc \in {"loop", "returned", "raised"}}

\* the entries of the action log that belong to turn t
EntriesOfTurn(t) == {k \in 1..Len(actionLog) : actionLog[k].turn = t}

ObservationPrefix == <<"O", "b", "s", "e", "r", "v", "a", "t", "i", "o", "n", ":", " ">>

\* C11: when the first matching line of a turn's response names a registered
\* action, the registered callable is invoked exactly once for that turn, with
\* the parsed argument, before the next model invocation, and the user message
\* of the next turn is exactly "Observation: " followed by the callable's
\* result.
C11_ActionThenObservation ==
    \A t \in AnsweredTurns :
        FirstDirectiveRegistered(t) =>
            LET d == actions_of(ResponseOfTurn(t))[1]
            IN  /\ (t = i /\ pc = "act") => (EntriesOfTurn(t) = {} /\ modelCalls = t)
                /\ t \in ActedTurns =>
                    /\ Cardinality(EntriesOfTurn(t)) = 1
                    /\ \A k \in EntriesOfTurn(t) :
                        /\ actionLog[k].name = d.name
                        /\ actionLog[k].arg = d.arg
                        /\ actionLog[k].out \in CallAction(d.name, d.arg)
                        /\ 2 * t + 1 <= Len(messages) =>
                            /\ actionLog[k].out.kind = "value"
                            /\ messages[2 * t + 1] =
                                 [role |-> "user",
                                  text |-> ObservationPrefix \o actionLog[k].out.text]

\* two turns each ran its action and the observation of the second went out
C11_Witness ==
    /\ Len(messages) >= 5
    /\ FirstDirectiveRegistered(1)
    /\ FirstDirectiveRegistered(2)
    /\ actions_of(ResponseOfTurn(1))[1] # actions_of(ResponseOfTurn(2))[1]
    /\ Len(actionLog) = 2

\* a turn is complete once its response is appended to the session
CompletedTurns == IF pc = "converse" \/ stop = "transport" THEN i - 1 ELSE i

\* C12: after any number of completed loop turns the session holds exactly two
\* messages per turn, user then assistant in alternation, and every assistant
\* message sits immediately after the user message whose model invocation
\* produced it: the t-th invocation was made on the first 2t-1 messages and
\* its reply is message 2t.
C12_TwoMessagesPerTurn ==
    /\ pc # "idle" =>
        Len(messages) = 2 * CompletedTurns + (IF CompletedTurns < i THEN 1 ELSE 0)
    /\ \A k \in 1..Len(messages) :
        messages[k].role = (IF k % 2 = 1 THEN "user" ELSE "assistant")
    /\ Len(sent) = modelCalls
    /\ Len(replies) = CompletedTurns
    /\ \A t \in 1..CompletedTurns :
        /\ messages[2 * t].text = replies[t]
        /\ sent[t] = SubSeq(messages, 1, 2 * t - 1)
        /\ sent[t][2 * t - 1] = messages[2 * t - 1]

\* three turns are complete, the last two fed by observations
C12_Witness ==
    /\ CompletedTurns = MaxTurns
    /\ Len(messages) = 2 * MaxTurns
    /\ Len(actionLog) >= 2
    /\ pc = "loop"

\* C22: the lookup of an action name in the registry is exact and
\* case-sensitive: a parsed name that differs from every registered name, be
\* it only in letter case ("Calculate" for "calculate"), is a miss, and the
\* miss is reported to the caller as an unknown action and never passed over;
\* a name that equals a registered one is never reported as unknown.
C22_LookupExact ==
    \A t \in AnsweredTurns :
        LET acts == actions_of(ResponseOfTurn(t))
        IN  acts # <<>> =>
                IF acts[1].name \in known_actions
                THEN ~(t = i /\ stop = "unknown_action")
                ELSE /\ t = i
                     /\ pc = "raised"
                     /\ stop = "unknown_action"
                     /\ err = Some([type |-> "Exception",
                                    message |-> UnknownActionMessage(acts[1].name,
                                                                     acts[1].arg)])
                     /\ EntriesOfTurn(t) = {}
                     /\ ret = None

\* a response that names "Calculate" was reported as an unknown action
C22_Witness ==
    /\ stop = "unknown_action"
    /\ actions_of(ResponseOfTurn(i))[1].name # name_calculate
    /\ ToLower(actions_of(ResponseOfTurn(i))[1].name) = name_calculate
    /\ pc = "raised"

(***************************************************************************)
(* action_re on one line: the lines are built from a prefix, a name, a     *)
(* separator and an argument text, so that lines of the directive form and *)
(* lines just off it are both matched.  A line is a piece of               *)
(* result.split("\n") and holds no newline.                                *)
(***************************************************************************)
BoundedSeqs(S, n) == UNION {[1..k -> S] : k \in 0..n}

LinePrefixes == {ActionPrefix, <<"a", "c", "t", "i", "o", "n", ":", " ">>, <<" ", "A", "c", "t", "i", "o", "n", ":", " ">>, <<"A", "c", "t", "i", "o", "n", ":">>}
LineNames == {name_average_dog_weight, <<"f", "l", "y">>, <<"a", "_", "1">>, <<"a", "-", "b">>, <<>>}
LineSeps == {ColonSpace, <<":">>, <<" ", ":", " ">>}
ArgChars == {" ", "x", ":"}
LineArgs == BoundedSeqs(ArgChars, MaxArgLen) \cup {<<"T", "o", "y", " ", "P", "o", "o", "d", "l", "e">>}

ParseInit ==
    /\ \E p \in LinePrefixes, n \in LineNames, sp \in LineSeps, b \in LineArgs :
        line_in = [prefix |-> p, name |-> n, sep |-> sp, body |-> b,
                   line |-> p \o n \o sp \o b]
    /\ line_out = <<>>
    /\ line_pc = "ready"
    /\ ExtractIdle

\* action_re.match(a) for one line a of the response
match_line ==
    /\ line_pc = "ready"
    /\ line_out' = action_re_match(line_in.line)
    /\ line_pc' = "matched"
    /\ UNCHANGED <<line_in, queries_text, parsed_queries, extract_pc>>
    /\ UNCHANGED <<reactVars, wfVars>>

ParseNext == match_line

InitParse == ParseInit /\ ReactIdle /\ WfIdle

SpecParse == InitParse /\ [][ParseNext]_vars

\* the line is "Action: <name>: <argument>" with a name of word characters
DirectiveForm ==
    /\ line_in.prefix = ActionPrefix
    /\ line_in.name # <<>>
    /\ \A k \in 1..Len(line_in.name) : line_in.name[k] \in WordChars
    /\ line_in.sep = ColonSpace

\* C10 as stated: for a line "Action: <name>: <argument>" the parser yields
\* the name, and as argument the rest of the line with leading and trailing
\* whitespace trimmed.
C10_AsStated ==
    (line_pc = "matched" /\ DirectiveForm) =>
        line_out = Some([name |-> line_in.name, arg |-> Strip(line_in.body)])

\* C10 amended: for a line "Action: <name>: <argument>" the parser yields the
\* name, and as argument everything that follows "Action: <name>: " up to the
\* end of the line, unchanged: whitespace at either end is kept.
C10_ArgumentVerbatim ==
    (line_pc = "matched" /\ DirectiveForm) =>
        line_out = Some([name |-> line_in.name, arg |-> line_in.body])

C10_Witness ==
    /\ line_pc = "matched"
    /\ DirectiveForm
    /\ line_in.name = name_average_dog_weight
    /\ Strip(line_in.body) # line_in.body
    /\ Strip(line_in.body) # <<>>
    /\ line_out = Some([name |-> line_in.name, arg |-> line_in.body])

(***************************************************************************)
(* Lesson 6: the research nodes' handling of the model text.               *)
(*                                                                         *)
(* The model text is a sequence of tokens: "{" and "}", "x" for any other  *)
(* character outside a payload, and inside a payload either query strings  *)
(* (the elements of the "queries" array) or "nokey", a JSON member other   *)
(* than "queries".                                                         *)
(***************************************************************************)
QueryStrings == {"q1", "q2", "q3"}

\* s[a:b] of Python for integers a, b: negative indices count from the end,
\* indices are clamped to the text, an empty range gives the empty text
PySlice(s, a, b) ==
    LET n  == Len(s)
        a1 == IF a < 0 THEN (IF a + n < 0 THEN 0 ELSE a + n) ELSE (IF a > n THEN n ELSE a)
        b1 == IF b < 0 THEN (IF b + n < 0 THEN 0 ELSE b + n) ELSE (IF b > n THEN n ELSE b)
    IN  SubSeq(s, a1 + 1, b1)

\* the mutated extraction: the whole text is taken for the payload
ExtractJsonWhole(text) == text

\* json_start = find("{"); json_end = rfind("}") + 1; text[json_start:json_end]
ExtractJson(text) ==
    PySlice(text, Find(text, "{"), RFind(text, "}") + 1)

\* json.loads(json_str): <<>> for JSONDecodeError, else <<the members>>.  The
\* text is one JSON object exactly when it is "{", members, "}" with no
\* further brace or stray character.
JsonLoads(json_str) ==
    LET n == Len(json_str)
    IN  IF n < 2 \/ json_str[1] # "{" \/ json_str[n] # "}" THEN None
        ELSE LET inner == SubSeq(json_str, 2, n - 1)
             IN  IF \/ \A k \in 1..Len(inner) : inner[k] \in QueryStrings
                    \/ inner = <<"nokey">>
                 THEN Some(inner)
                 ELSE None

\* Queries(**queries_dict): <<>> for the ValidationError of an object without
\* a "queries" list, else <<the queries>>
Queries(queries_dict) ==
    IF queries_dict = <<"nokey">> THEN None ELSE Some(queries_dict)

\* the mutated parse: from a text that does not parse the query strings it
\* holds are taken all the same
QueriesOfSalvaging(text) ==
    LET d == JsonLoads(ExtractJson(text))
    IN  IF d = None \/ Queries(d[1]) = None
        THEN [ok |-> TRUE, err |-> "",
              queries |-> SelectSeq(text, LAMBDA c : c \in QueryStrings)]
        ELSE [ok |-> TRUE, err |-> "", queries |-> Queries(d[1])[1]]

\* the mutated parse: a text that does not parse counts as an empty list
QueriesOfLenient(text) ==
    LET d == JsonLoads(ExtractJson(text))
    IN  IF d = None \/ Queries(d[1]) = None
        THEN [ok |-> TRUE, err |-> "", queries |-> <<>>]
        ELSE [ok |-> TRUE, err |-> "", queries |-> Queries(d[1])[1]]

\* from queries_text to parsed_queries.queries, or the exception on the way
QueriesOf(text) ==
    LET d == JsonLoads(ExtractJson(text))
    IN  IF d = None THEN [ok |-> FALSE, err |-> "JSONDecodeError", queries |-> <<>>]
        ELSE IF Queries(d[1]) = None
        THEN [ok |-> FALSE, err |-> "ValidationError", queries |-> <<>>]
        ELSE [ok |-> TRUE, err |-> "", queries |-> Queries(d[1])[1]]

\* max_results of tavily.search
max_results == 2

\* response["results"] of tavily.search(query=q, max_results=2), as texts:
\* the j-th snippet found for q is <<q, j>>
Search(q) == [j \in 1..tavily_results[q] |-> <<q, j>>]

RECURSIVE SearchAll(_)
\* the snippets of the calls for qs, in call order
SearchAll(qs) ==
    IF qs = <<>> THEN <<>> ELSE Search(qs[1]) \o SearchAll(Tail(qs))

\* what the record of a tavily.search call shows when the call raised
RaisedResult == <<<<"raised", 0>>>>

\* the mutated loop: it stops before the last query
CallsOfButLast(n, qs) == [k \in 1..(Len(qs) - 1) |-> [node |-> n, q |-> qs[k], results |-> Search(qs[k])]]

\* the call records of one node execution: one tavily.search call per query
CallsOf(n, qs) == [k \in 1..Len(qs) |-> [node |-> n, q |-> qs[k], results |-> Search(qs[k])]]

\* the mutated append: the snippets replace what content held
AppendedReset(content, snippets) == snippets

\* the mutated append: the new snippets go in front
AppendedInFront(content, snippets) == snippets \o content

\* content = state["content"] or []; content.append(...) per snippet: what
\* the list holds once the snippets are appended
Appended(content, snippets) == content \o snippets

\* what the model may answer to a research prompt
ResearchTexts ==
    { <<"{", "q1", "}">>,
      <<"x", "{", "q2", "q1", "q3", "}", "x">>,
      <<"{", "q3", "q2", "q1", "q3", "}">>,
      <<"{", "}">>,
      <<"x">>,
      <<"}", "x", "{">>,
      <<"{", "q1">>,
      <<"{", "q1", "}", "x", "{", "q2", "}">>,
      <<"{", "nokey", "}">> }

(***************************************************************************)
(* The parse of one model text on its own: the texts are all token texts   *)
(* up to a length, so that texts with no brace, with braces in the wrong   *)
(* order, with several objects and with text around one object are parsed. *)
(***************************************************************************)
MaxTextLen == 5        \* longest model text handed to the parse

TextTokens == {"{", "}", "x", "q1", "q2", "nokey"}

ExtractInit ==
    /\ queries_text \in BoundedSeqs(TextTokens, MaxTextLen)
    /\ parsed_queries = <<>>
    /\ extract_pc = "ready"

\* from queries_output.content to parsed_queries, in either research node
parse_queries ==
    /\ extract_pc = "ready"
    /\ parsed_queries' = QueriesOf(queries_text)
    /\ extract_pc' = "parsed"
    /\ UNCHANGED <<queries_text, line_in, line_out, line_pc>>
    /\ UNCHANGED <<reactVars, wfVars>>

ExtractNext == parse_queries

InitExtract ==
    /\ ExtractInit
    /\ line_in = <<>>
    /\ line_out = <<>>
    /\ line_pc = "idle"
    /\ ReactIdle
    /\ WfIdle

SpecExtract == InitExtract /\ [][ExtractNext]_vars

(***************************************************************************)
(* Lesson 6: the nodes, the edges and the run of the compiled graph.       *)
(*                                                                         *)
(* A node execution is one step.  The text a model call returns for plan,  *)
(* draft and critique is opaque: <<kind, n>> is the text of the n-th model *)
(* call of the run.                                                        *)
(***************************************************************************)
END == "__end__"
Nodes == {"planner", "research_plan", "generate", "reflect", "research_critique"}

\* the mutated test: stops one revision early
should_continue_at_limit(st) ==
    IF st.revision_number >= st.max_revisions THEN END ELSE "reflect"

\* should_continue(state)
should_continue(st) ==
    IF st.revision_number > st.max_revisions THEN END ELSE "reflect"

\* the mutated increment: two per draft
next_revision_by_two(st) == st.revision_number + 2

\* state.get("revision_number", 1) + 1, for a run started with a
\* revision_number
next_revision(st) == st.revision_number + 1

\* the mutated edges: reflect goes straight back to generate
SuccessorSkipsCritique(n, st) ==
    CASE n = "planner"           -> "research_plan"
      [] n = "research_plan"     -> "generate"
      [] n = "generate"          -> should_continue(st)
      [] n = "reflect"           -> "generate"
      [] n = "research_critique" -> "generate"

\* the mutated edges: reflect has no edge out
SuccessorDeadEnd(n, st) ==
    CASE n = "planner"           -> "research_plan"
      [] n = "research_plan"     -> "generate"
      [] n = "generate"          -> should_continue(st)
      [] n = "reflect"           -> "nowhere"
      [] n = "research_critique" -> "generate"

\* builder.add_edge and builder.add_conditional_edges: the node that follows
\* n once n's update is merged into the state st
Successor(n, st) ==
    CASE n = "planner"           -> "research_plan"
      [] n = "research_plan"     -> "generate"
      [] n = "generate"          -> should_continue(st)
      [] n = "reflect"           -> "research_critique"
      [] n = "research_critique" -> "generate"

WfInit ==
    /\ \E r \in 0..(MaxRevisions + 1), m \in 0..MaxRevisions :
        /\ state = [task |-> <<"task">>, plan |-> None, draft |-> None,
                    critique |-> None, content |-> <<>>,
                    revision_number |-> r, max_revisions |-> m]
        /\ start_revision = r
    /\ tavily_results \in [QueryStrings -> 0..max_results]
    /\ node = "planner"
    /\ trace = <<>>
    /\ retrievals = <<>>
    /\ genLog = <<>>
    /\ wf_err = None
    /\ wfModelCalls = 0
    /\ texts = <<>>

\* plan_node: one model call, returns {"plan": ...}
plan_node ==
    /\ node = "planner"
    /\ wfModelCalls' = wfModelCalls + 1
    /\ state' = [state EXCEPT !.plan = Some(<<"plan", wfModelCalls'>>)]
    /\ trace' = Append(trace, "planner")
    /\ node' = Successor("planner", state')
    /\ UNCHANGED <<tavily_results, retrievals, genLog, wf_err, start_revision>>
    /\ UNCHANGED <<texts, reactVars, parseVars>>

\* generation_node: one model call, returns {"draft": ..., "revision_number": ...}
generation_node ==
    /\ node = "generate"
    /\ wfModelCalls' = wfModelCalls + 1
    /\ state' = [state EXCEPT !.draft = Some(<<"draft", wfModelCalls'>>),
                              !.revision_number = next_revision(state)]
    /\ trace' = Append(trace, "generate")
    /\ genLog' = Append(genLog, state'.revision_number)
    /\ node' = Successor("generate", state')
    /\ UNCHANGED <<tavily_results, retrievals, wf_err, start_revision>>
    /\ UNCHANGED <<texts, reactVars, parseVars>>

\* the mutated reflect: its update also clears the draft
reflection_node_drops_draft ==
    /\ node = "reflect"
    /\ wfModelCalls' = wfModelCalls + 1
    /\ state' = [state EXCEPT !.critique = Some(<<"critique", wfModelCalls'>>),
                              !.draft = None]
    /\ trace' = Append(trace, "reflect")
    /\ node' = Successor("reflect", state')
    /\ UNCHANGED <<tavily_results, retrievals, genLog, wf_err, start_revision>>
    /\ UNCHANGED <<texts, reactVars, parseVars>>

\* reflection_node: one model call, returns {"critique": ...}
reflection_node ==
    /\ node = "reflect"
    /\ wfModelCalls' = wfModelCalls + 1
    /\ state' = [state EXCEPT !.critique = Some(<<"critique", wfModelCalls'>>)]
    /\ trace' = Append(trace, "reflect")
    /\ node' = Successor("reflect", state')
    /\ UNCHANGED <<tavily_results, retrievals, genLog, wf_err, start_revision>>
    /\ UNCHANGED <<texts, reactVars, parseVars>>

\* research_plan_node and research_critique_node, which differ in their prompt
\* only: one model call; the payload is cut out of the text and parsed; then
\* one tavily.search call per query, each snippet appended to content.
\* failAt = 0: no search call fails; failAt = k: the k-th one raises.  A failed
\* search leaves the snippets appended so far in the list `content`, which is
\* the state's own list when that was not empty (`state["content"] or []`):
\* whether the state then shows them is left open.
research_node(n) ==
    /\ node = n
    /\ wfModelCalls' = wfModelCalls + 1
    /\ \E text \in ResearchTexts :
        LET p == QueriesOf(text)
        IN  /\ texts' = Append(texts, [node |-> Len(trace) + 1, name |-> n,
                                        text |-> text])
            /\ IF ~p.ok
               THEN /\ wf_err' = Some([node |-> n, type |-> p.err])
                    /\ node' = "failed"
                    /\ UNCHANGED <<state, trace, retrievals>>
               ELSE \E failAt \in 0..Len(p.queries) :
                    IF failAt = 0
                    THEN /\ state' = [state EXCEPT
                                 !.content = Appended(state.content, SearchAll(p.queries))]
                         /\ retrievals' = retrievals \o CallsOf(Len(trace) + 1, p.queries)
                         /\ trace' = Append(trace, n)
                         /\ node' = Successor(n, state')
                         /\ UNCHANGED wf_err
                    ELSE LET done == SubSeq(p.queries, 1, failAt - 1)
                         IN  /\ \/ UNCHANGED state
                                \/ /\ state.content # <<>>
                                   /\ state' = [state EXCEPT
                                          !.content = Appended(state.content, SearchAll(done))]
                             /\ retrievals' = (retrievals \o CallsOf(Len(trace) + 1, done))
                                    \o <<[node |-> Len(trace) + 1, q |-> p.queries[failAt],
                                          results |-> RaisedResult]>>
                             /\ wf_err' = Some([node |-> n, type |-> "TavilyError"])
                             /\ node' = "failed"
                             /\ UNCHANGED trace
    /\ UNCHANGED <<tavily_results, genLog, start_revision>>
    /\ UNCHANGED <<reactVars, parseVars>>

research_plan_node == research_node("research_plan")

research_critique_node == research_node("research_critique")

\* the mutated failure: the error is noted and the node stays current, to be
\* run again
model_fails_retried ==
    /\ node \in Nodes
    /\ wf_err = None
    /\ wfModelCalls' = wfModelCalls + 1
    /\ wf_err' = Some([node |-> node, type |-> "ClientError"])
    /\ UNCHANGED <<node, state, trace, tavily_results, retrievals, genLog, start_revision>>
    /\ UNCHANGED <<texts, reactVars, parseVars>>

\* model.invoke raises in any node: nothing catches it, the state is as it was
model_fails ==
    /\ node \in Nodes
    /\ wfModelCalls' = wfModelCalls + 1
    /\ wf_err' = Some([node |-> node, type |-> "ClientError"])
    /\ node' = "failed"
    /\ UNCHANGED <<state, trace, tavily_results, retrievals, genLog, start_revision>>
    /\ UNCHANGED <<texts, reactVars, parseVars>>

WfNext ==
    \/ plan_node
    \/ research_plan_node
    \/ generation_node
    \/ reflection_node
    \/ research_critique_node
    \/ model_fails

InitWorkflow == WfInit /\ ReactIdle /\ ParseIdle

SpecWorkflow == InitWorkflow /\ [][WfNext]_vars

(***************************************************************************)
(* Claims about the workflow (checked under SpecWorkflow).                 *)
(***************************************************************************)
\* the node order of the run started with revision_number = 1, max_revisions = 2
OrderOneTwo ==
    <<"planner", "research_plan", "generate", "reflect", "research_critique",
      "generate">>

\* the number of executions of node n so far
Executions(n) == Cardinality({k \in 1..Len(trace) : trace[k] = n})

\* C1: a run started with revision_number = 1 and max_revisions = 2 in which
\* no call fails executes planner, research_plan, generate (revision_number
\* becomes 2), reflect, research_critique, generate (revision_number becomes
\* 3) and then reaches the terminal node, in exactly this order.
C1_NodeOrder ==
    (start_revision = 1 /\ state.max_revisions = 2) =>
        /\ Len(trace) <= Len(OrderOneTwo)
        /\ trace = SubSeq(OrderOneTwo, 1, Len(trace))
        /\ node \in {"failed", (OrderOneTwo \o <<END>>)[Len(trace) + 1]}
        /\ Len(genLog) = Executions("generate")
        /\ genLog = SubSeq(<<2, 3>>, 1, Len(genLog))
        /\ state.revision_number = 1 + Len(genLog)

C1_Witness ==
    /\ start_revision = 1
    /\ state.max_revisions = 2
    /\ node = END
    /\ trace = OrderOneTwo
    /\ genLog = <<2, 3>>

\* C2 as stated: a run started with revision_number = 1 and max_revisions = N
\* has executed generate exactly N + 1 times when it reaches the terminal node.
C2_AsStated ==
    (start_revision = 1 /\ node = END) =>
        Executions("generate") = state.max_revisions + 1

\* C2 amended: a run started with revision_number = 1 and max_revisions = N
\* has executed generate exactly N times when it reaches the terminal node
\* (two executions for max_revisions = 2), and exactly once when N < 1.
C2_GenerateCount ==
    (start_revision = 1 /\ node = END) =>
        Executions("generate") =
            (IF state.max_revisions >= 1 THEN state.max_revisions ELSE 1)

C2_Witness ==
    /\ start_revision = 1
    /\ node = END
    /\ state.max_revisions = MaxRevisions
    /\ Executions("generate") = MaxRevisions

\* C3: after an execution of generate the run goes to the terminal node
\* exactly when revision_number is strictly greater than max_revisions; with
\* revision_number equal to max_revisions the next node is reflect.
C3_StrictGreater ==
    (trace # <<>> /\ trace[Len(trace)] = "generate") =>
        /\ (node = END) <=> (state.revision_number > state.max_revisions)
        /\ (state.revision_number <= state.max_revisions) =>
               \/ node = "reflect"
               \/ node = "failed" /\ wf_err[1].node = "reflect"

\* generate has just run and left revision_number equal to max_revisions
C3_Witness ==
    /\ trace # <<>>
    /\ trace[Len(trace)] = "generate"
    /\ state.revision_number = state.max_revisions
    /\ node = "reflect"

\* s is an initial piece of t
IsPrefix(s, t) == Len(s) <= Len(t) /\ SubSeq(t, 1, Len(s)) = s

\* the snippets one retrieval call returned (none when it raised)
ReturnedBy(call) == IF call.results = RaisedResult THEN <<>> ELSE call.results

\* the snippets a sequence of retrieval calls returned, in call order
RECURSIVE SnippetsOf(_)
SnippetsOf(calls) ==
    IF calls = <<>> THEN <<>>
    ELSE ReturnedBy(Head(calls)) \o SnippetsOf(Tail(calls))

\* the retrieval calls made by the step that is being taken
CallsOfStep == SubSeq(retrievals', Len(retrievals) + 1, Len(retrievals'))

\* C13: within one run content only grows: every step leaves the previous
\* content as a prefix of the new content (nothing removed, nothing
\* reordered), and an execution of research_critique leaves the content the
\* earlier research nodes built followed by the snippets it retrieved itself.
C13_ContentOnlyGrows ==
    [][/\ IsPrefix(state.content, state'.content)
       /\ (node = "research_critique" /\ trace' # trace) =>
            state'.content = state.content \o SnippetsOf(CallsOfStep)]_vars

\* research_critique added snippets to snippets research_plan had retrieved
C13_Witness ==
    \E a, b \in 1..Len(retrievals) :
        /\ retrievals[a].node <= Len(trace)
        /\ retrievals[b].node <= Len(trace)
        /\ trace[retrievals[a].node] = "research_plan"
        /\ trace[retrievals[b].node] = "research_critique"
        /\ ReturnedBy(retrievals[a]) # <<>>
        /\ ReturnedBy(retrievals[b]) # <<>>
        /\ Len(state.content) >= 2

\* C14: when a run reaches the terminal node, content equals the
\* concatenation, in call order, of the snippets returned by every retrieval
\* call that the research_plan and research_critique executions of the run
\* made: no snippet is dropped or reordered.
C14_ContentIsAllSnippets ==
    node = END =>
        /\ state.content = SnippetsOf(retrievals)
        /\ \A k \in 1..Len(retrievals) :
            /\ retrievals[k].results # RaisedResult
            /\ trace[retrievals[k].node] \in {"research_plan", "research_critique"}
            /\ k > 1 => retrievals[k - 1].node <= retrievals[k].node

\* a finished run whose two kinds of research node both retrieved snippets,
\* for different queries
C14_Witness ==
    /\ node = END
    /\ Len(state.content) >= 3
    /\ \E a, b \in 1..Len(retrievals) :
        /\ trace[retrievals[a].node] = "research_plan"
        /\ trace[retrievals[b].node] = "research_critique"
        /\ ReturnedBy(retrievals[a]) # <<>>
        /\ ReturnedBy(retrievals[b]) # <<>>
        /\ retrievals[a].q # retrievals[b].q

\* the queries of the retrieval calls that the x-th node execution made, in
\* call order
QueriesCalledBy(x) ==
    LET calls == SelectSeq(retrievals, LAMBDA c : c.node = x)
    IN  [k \in 1..Len(calls) |-> calls[k].q]

\* the model texts of research executions that returned
ReturnedResearch == {k \in 1..Len(texts) : texts[k].node <= Len(trace)}

\* C15: one execution of a research node makes exactly one retrieval call for
\* each query of the parsed payload, in payload order, so a payload of exactly
\* 3 queries gives exactly 3 retrieval calls.  (An execution that a failing
\* retrieval call aborts has made the calls for the queries up to the failing
\* one, in payload order.)
C15_OneCallPerQuery ==
    \A k \in 1..Len(texts) :
        LET e == texts[k]
            called == QueriesCalledBy(e.node)
            payload == QueriesOf(e.text).queries
        IN  /\ k \in ReturnedResearch =>
                /\ trace[e.node] = e.name
                /\ called = payload
                /\ Len(payload) = 3 => Len(called) = 3
            /\ k \notin ReturnedResearch =>
                /\ IsPrefix(called, payload)
                /\ called # <<>> => retrievals[Len(retrievals)].results = RaisedResult

\* a research execution with a payload of three different queries returned
C15_Witness ==
    \E k \in ReturnedResearch :
        /\ Len(QueriesOf(texts[k].text).queries) = 3
        /\ Len(QueriesCalledBy(texts[k].node)) = 3
        /\ Cardinality({QueriesCalledBy(texts[k].node)[j] : j \in 1..3}) = 3

\* C16 as stated: each execution of research_plan or research_critique uses a
\* query list of at most 3 queries and so makes at most 3 retrieval calls.
C16_AsStated ==
    \A k \in 1..Len(texts) :
        /\ Len(QueriesOf(texts[k].text).queries) <= 3
        /\ Len(QueriesCalledBy(texts[k].node)) <= 3

\* C17: revision_number goes up by exactly 1 at every execution of generate
\* and is left as it is by planner, research_plan, reflect and
\* research_critique, so it never decreases within a run and after k
\* executions of generate it equals the starting value plus k.
C17_RevisionCountsGenerate ==
    /\ [](state.revision_number = start_revision + Executions("generate"))
    /\ [][/\ state'.revision_number >= state.revision_number
          /\ (node = "generate" /\ trace' # trace) =>
                state'.revision_number = state.revision_number + 1
          /\ (node # "generate" \/ trace' = trace) =>
                state'.revision_number = state.revision_number]_vars

\* generate ran twice, with every other kind of node run in between
C17_Witness ==
    /\ Executions("generate") = 2
    /\ Executions("research_critique") = 1
    /\ state.revision_number = start_revision + 2
    /\ start_revision = 0

\* C18: the terminal node is entered only as the successor of an execution of
\* generate, through the conditional edge, with revision_number >
\* max_revisions holding at that moment; no other node has a transition to
\* the terminal node.
C18_TerminalOnlyAfterGenerate ==
    [][node' = END =>
         /\ node = "generate"
         /\ trace' = Append(trace, "generate")
         /\ state'.revision_number > state'.max_revisions
         /\ wf_err' = None]_vars

\* the terminal node entered after a draft that followed a critique
C18_Witness ==
    /\ node = END
    /\ trace[Len(trace)] = "generate"
    /\ Executions("reflect") >= 1
    /\ state.revision_number = state.max_revisions + 1

\* the text holds a structured payload: from its first "{" to its last "}"
\* it is one object whose members are a list of queries
HasPayload(text) ==
    \E a, b \in 1..Len(text) :
        /\ a < b
        /\ text[a] = "{"
        /\ text[b] = "}"
        /\ \A k \in 1..(a - 1) : text[k] # "{"
        /\ \A k \in (b + 1)..Len(text) : text[k] # "}"
        /\ \A k \in (a + 1)..(b - 1) : text[k] \in QueryStrings

\* C19: when the model text given to a research node holds no structured
\* payload, or one that does not parse, that node execution fails with a
\* parse error that reaches the caller: the model is not invoked a second
\* time for that node, the node makes no retrieval call, and no later node of
\* the run executes.
C19_MalformedPayloadFatal ==
    /\ [](\A k \in 1..Len(texts) :
            ~HasPayload(texts[k].text) =>
                /\ k = Len(texts)
                /\ node = "failed"
                /\ wf_err # None
                /\ wf_err[1].node = texts[k].name
                /\ wf_err[1].type \in {"JSONDecodeError", "ValidationError"}
                /\ texts[k].node = Len(trace) + 1
                /\ wfModelCalls = Len(trace) + 1
                /\ QueriesCalledBy(texts[k].node) = <<>>)
    /\ [][node # "failed"]_vars

\* research_critique got a text without a payload after research_plan had
\* retrieved snippets
C19_Witness ==
    /\ Len(texts) = 2
    /\ ~HasPayload(texts[2].text)
    /\ texts[2].name = "research_critique"
    /\ node = "failed"
    /\ state.content # <<>>

(***************************************************************************)
(* Either program: one call of query (and the one after it) or one run of  *)
(* the graph.                                                              *)
(***************************************************************************)
InitEither == InitReact \/ InitWorkflow

NextEither == ReactNext \/ WfNext

SpecEither == InitEither /\ [][NextEither]_vars

\* the retrieval calls that raised
RaisedCalls == {k \in 1..Len(retrievals) : retrievals[k].results = RaisedResult}

\* C20: when a model call or a retrieval call fails, in the ReAct loop or in
\* the workflow, the run is aborted at once with that failure surfaced to the
\* caller: the failed call is not made again, and the run makes no later
\* model invocation, retrieval call, action execution or node execution.
C20_FailureAborts ==
    /\ [](stop = "transport" =>
            /\ pc = "raised"
            /\ err # None
            /\ err[1].type = "ClientError"
            /\ modelCalls = i
            /\ Len(sent) = i
            /\ Len(replies) = i - 1
            /\ Len(messages) = 2 * i - 1
            /\ \A k \in 1..Len(actionLog) : actionLog[k].turn < i)
    /\ [][stop = "transport" =>
            /\ prev = None
            /\ prev' = Some([stop |-> "transport", ret |-> None, raised |-> TRUE])
            /\ modelCalls' = 0]_vars
    /\ [](/\ wf_err # None => node = "failed"
          /\ node = "failed" => wf_err # None
          /\ (wf_err # None /\ wf_err[1].type = "ClientError") =>
                /\ wfModelCalls = Len(trace) + 1
                /\ RaisedCalls = {}
          /\ RaisedCalls # {} =>
                /\ RaisedCalls = {Len(retrievals)}
                /\ wf_err = Some([node |-> texts[Len(texts)].name,
                                  type |-> "TavilyError"])
                /\ retrievals[Len(retrievals)].node = Len(trace) + 1
                /\ wfModelCalls = Len(trace) + 1)
    /\ [][node # "failed"]_vars

\* a retrieval call failed after an earlier call of the same node had
\* returned snippets
C20_Witness ==
    /\ RaisedCalls # {}
    /\ Len(retrievals) >= 2
    /\ retrievals[Len(retrievals) - 1].node = retrievals[Len(retrievals)].node
    /\ ReturnedBy(retrievals[Len(retrievals) - 1]) # <<>>
    /\ node = "failed"

\* the fields of AgentState
Fields ==
    {"task", "plan", "draft", "critique", "content", "revision_number",
     "max_revisions"}

\* the fields the claim gives to node n
OwnFields(n) ==
    CASE n = "planner"           -> {"plan"}
      [] n = "reflect"           -> {"critique"}
      [] n = "generate"          -> {"draft", "revision_number"}
      [] n = "research_plan"     -> {"content"}
      [] n = "research_critique" -> {"content"}
      [] OTHER                   -> {}

\* C21: each node changes only its own fields of the state and leaves every
\* other field as it was: planner only plan, reflect only critique, generate
\* only draft and revision_number, research_plan and research_critique only
\* content; task and max_revisions are changed by no node.
C21_NodesChangeOwnFields ==
    [][/\ \A f \in Fields \ OwnFields(node) : state'[f] = state[f]
       /\ state'.task = state.task
       /\ state'.max_revisions = state.max_revisions
       /\ DOMAIN state' = Fields]_vars

\* a finished run in which every kind of node ran and wrote its field
C21_Witness ==
    /\ node = END
    /\ \A n \in Nodes : Executions(n) >= 1
    /\ state.plan # None
    /\ state.draft # None
    /\ state.critique # None
    /\ state.content # <<>>
    /\ state.revision_number > start_revision

\* the one node that follows n, for the nodes with a fixed edge
FixedNext(n) ==
    CASE n = "planner"           -> "research_plan"
      [] n = "research_plan"     -> "generate"
      [] n = "reflect"           -> "research_critique"
      [] n = "research_critique" -> "generate"

\* the node about to run, or the terminal node, after the executions so far
Following(k) == IF k < Len(trace) THEN trace[k + 1] ELSE node

\* C23: in every run planner is the first node and runs once, research_plan
\* runs once, immediately after planner, and is immediately followed by
\* generate; every reflect is immediately followed by research_critique and
\* then by generate; the only node with more than one way on is generate
\* (to reflect or to the terminal node).  A call that fails ends the run in
\* the node that made it.
C23_FixedOrder ==
    /\ trace # <<>> => trace[1] = "planner"
    /\ trace = <<>> => node \in {"planner", "failed"}
    /\ Executions("planner") <= 1
    /\ Executions("research_plan") <= 1
    /\ node = END => (Executions("planner") = 1 /\ Executions("research_plan") = 1)
    /\ \A k \in 1..Len(trace) :
        IF trace[k] = "generate"
        THEN Following(k) \in {"reflect", END, "failed"}
        ELSE Following(k) \in {FixedNext(trace[k]), "failed"}
    /\ \A k \in 1..Len(trace) :
        (Following(k) = "failed") => (k = Len(trace) /\ wf_err # None)

\* a finished run that went through reflect and research_critique twice
C23_Witness ==
    /\ node = END
    /\ Executions("reflect") = 2
    /\ Executions("research_critique") = 2
    /\ Executions("generate") = 3

\* C24: the session of a run is append-only and is sent whole to the model:
\* the t-th model invocation of a run receives exactly the 2t-1 messages
\* appended so far, the first of which is the initial task, and no message is
\* ever removed, replaced or reordered (a new call of query starts a new
\* session).
C24_SessionSentWhole ==
    /\ [](\A t \in 1..Len(sent) :
            /\ Len(sent[t]) = 2 * t - 1
            /\ sent[t] = SubSeq(messages, 1, 2 * t - 1)
            /\ sent[t][1] = [role |-> "user", text |-> question])
    /\ [](Len(sent) = modelCalls)
    /\ [][prev' = prev => IsPrefix(messages, messages')]_vars

\* the third invocation of a run got the five messages before it
C24_Witness ==
    /\ Len(sent) = 3
    /\ Len(sent[3]) = 5
    /\ sent[3][1].text = question
    /\ sent[3][5].text # question
    /\ pc = "converse"

Braces == {"{", "}"}

\* the positions of token c in the text
PositionsOf(text, c) == {k \in 1..Len(text) : text[k] = c}

\* the text is one valid payload with brace-free text around it
OnePayloadSurrounded(text) ==
    \E a, b \in 1..Len(text) :
        /\ a < b
        /\ PositionsOf(text, "{") = {a}
        /\ PositionsOf(text, "}") = {b}
        /\ \A k \in (a + 1)..(b - 1) : text[k] \in QueryStrings

\* the queries of that payload
PayloadBetweenBraces(text) ==
    LET a == CHOOSE k \in 1..Len(text) : text[k] = "{"
        b == CHOOSE k \in 1..Len(text) : text[k] = "}"
    IN  SubSeq(text, a + 1, b - 1)

\* no "{", or no "}", or every "}" before the first "{"
NoBracePair(text) ==
    \/ PositionsOf(text, "{") = {}
    \/ PositionsOf(text, "}") = {}
    \/ \A b \in PositionsOf(text, "}") : \A a \in PositionsOf(text, "{") : b < a

\* C25: a research node takes as payload the text from the first "{" to the
\* last "}" of the model text: a text made of one valid payload with text
\* around it that holds no brace is parsed to that payload's query list, and
\* a text with no "{", or no "}", or with "}" only before the first "{" gives
\* a parse error and never a query list.
C25_PayloadBetweenBraces ==
    extract_pc = "parsed" =>
        /\ OnePayloadSurrounded(queries_text) =>
            /\ parsed_queries.ok
            /\ parsed_queries.queries = PayloadBetweenBraces(queries_text)
        /\ NoBracePair(queries_text) =>
            /\ ~parsed_queries.ok
            /\ parsed_queries.err = "JSONDecodeError"
            /\ parsed_queries.queries = <<>>

\* a payload of one query with text before and after it was parsed
C25_Witness ==
    /\ extract_pc = "parsed"
    /\ OnePayloadSurrounded(queries_text)
    /\ queries_text[1] \notin Braces
    /\ queries_text[Len(queries_text)] \notin Braces
    /\ Len(parsed_queries.queries) = 1

(***************************************************************************)
(* query runs to its end: its own statements are executed one after the    *)
(* other, and a call it makes comes back, with a value or an exception.    *)
(* The caller's second call of query is under no obligation.               *)
(***************************************************************************)
QueryStep ==
    \/ query_turn
    \/ query_limit
    \/ converse_returns
    \/ converse_fails
    \/ action_returns
    \/ action_raises

SpecReactFair == InitReact /\ [][ReactNext]_vars /\ WF_vars(QueryStep)

Running == pc \in {"loop", "converse", "act"}

\* C26: for every turn limit and every behaviour of the model, a run in which
\* every model invocation and every action execution returns eventually
\* stops: by a final answer, by an unknown-action error, or by the turn limit.
C26_RunStops ==
    [](stop \notin {"transport", "action_error"}) =>
        [](Running =>
             <>(Stopped /\ stop \in {"no_action", "unknown_action", "turn_limit"}))

\* a second run, too, was stopped by the turn limit after all its actions
\* had returned
C26_Witness ==
    /\ prev # None
    /\ prev[1].stop = "no_action"
    /\ pc = "returned"
    /\ stop = "turn_limit"
    /\ max_turns = MaxTurns
    /\ Len(actionLog) = MaxTurns

(***************************************************************************)
(* graph.stream runs to its end: the node that is next is executed, and    *)
(* the calls it makes come back, with a value or an exception.             *)
(***************************************************************************)
SpecWorkflowFair == InitWorkflow /\ [][WfNext]_vars /\ WF_vars(WfNext)

\* C27: for every starting revision_number and every max_revisions, a run in
\* which every model call and retrieval call returns and every payload parses
\* eventually reaches the terminal node: the cycle of plan, research, draft
\* and critique cannot go on forever.
C27_RunReachesTerminal ==
    [](wf_err = None) => <>(node = END)

\* a run from revision_number 0 with the largest max_revisions reached the
\* terminal node without a failure
C27_Witness ==
    /\ node = END
    /\ wf_err = None
    /\ start_revision = 0
    /\ state.max_revisions = MaxRevisions
    /\ Executions("generate") = MaxRevisions + 1

\* max(1, M - r + 1) for the run's starting revision_number r and its
\* max_revisions M
ExpectedDrafts ==
    IF state.max_revisions - start_revision + 1 > 1
    THEN state.max_revisions - start_revision + 1
    ELSE 1

\* C28: for any starting revision_number r and any max_revisions M, a run
\* that does not fail executes generate exactly max(1, M - r + 1) times and
\* reflect and research_critique one time fewer each; generate runs once even
\* when r > M holds at the start, since the comparison is made only after
\* generate has run.
C28_DraftCount ==
    /\ node = END =>
        /\ Executions("generate") = ExpectedDrafts
        /\ Executions("reflect") = ExpectedDrafts - 1
        /\ Executions("research_critique") = ExpectedDrafts - 1
    /\ node \in Nodes \cup {"failed"} => Executions("generate") <= ExpectedDrafts

\* a run started with r > M ran generate once and then ended
C28_Witness ==
    /\ node = END
    /\ start_revision > state.max_revisions
    /\ Executions("generate") = 1
    /\ Executions("reflect") = 0

\* C29: when a run stops because the turn limit N >= 1 was reached, the
\* action named in the N-th model response has been executed (N action
\* executions for N model invocations), but its observation is never appended
\* to the session nor sent to the model: the session ends with the N-th
\* assistant message and holds exactly 2N messages.
C29_LastObservationUnused ==
    /\ []((stop = "turn_limit" /\ max_turns >= 1) =>
            /\ i = max_turns
            /\ modelCalls = max_turns
            /\ Len(sent) = max_turns
            /\ Len(actionLog) = max_turns
            /\ \A k \in 1..max_turns :
                /\ actionLog[k].turn = k
                /\ actionLog[k].out.kind = "value"
            /\ actionLog[max_turns].name = actions_of(replies[max_turns])[1].name
            /\ actionLog[max_turns].arg = actions_of(replies[max_turns])[1].arg
            /\ next_prompt = ObservationPrefix \o actionLog[max_turns].out.text
            /\ Len(messages) = 2 * max_turns
            /\ messages[2 * max_turns] =
                 [role |-> "assistant", text |-> replies[max_turns]])
    /\ [][stop = "turn_limit" => (prev' # prev /\ messages' = <<>>)]_vars

\* the limit of two turns was reached with the second observation at hand
C29_Witness ==
    /\ stop = "turn_limit"
    /\ max_turns = 2
    /\ Len(actionLog) = 2
    /\ Len(messages) = 4
    /\ next_prompt # messages[3].text

(***************************************************************************)
(* Lesson 1: one Agent called several times, as the notebook's cells do    *)
(* (abot = Agent(prompt); abot(question); abot(next_prompt); ...).  The    *)
(* session is bot.messages; pc is "ready" between calls and "converse"     *)
(* inside one.                                                             *)
(***************************************************************************)
MaxCalls == 3          \* most calls made on one Agent

\* what the cells pass to the Agent: a question or an observation
AgentInputs ==
    Questions \cup
        {FormatObservation(average_dog_weight(<<"T", "o", "y", " ", "P", "o", "o", "d", "l", "e">>))}

\* what the model answers
AgentReplies ==
    {Join(<<line_answer>>), Join(<<line_thought, line_poodle, line_pause>>)}

\* abot = Agent(prompt)
AgentInit ==
    /\ question = <<>>
    /\ max_turns = 0
    /\ i = 0
    /\ next_prompt = <<>>
    /\ messages = <<>>
    /\ pc = "ready"
    /\ result = None
    /\ action = None
    /\ action_input = None
    /\ ret = None
    /\ err = None
    /\ stop = ""
    /\ prev = None
    /\ modelCalls = 0
    /\ actionLog = <<>>
    /\ sent = <<>>
    /\ replies = <<>>

\* Agent.__call__(message) up to the call of converse: the user message is
\* appended, then execute sends the session
agent_call ==
    /\ pc = "ready"
    /\ modelCalls < MaxCalls
    /\ \E message \in AgentInputs :
        /\ next_prompt' = message
        /\ messages' = Append(messages, UserMessage(message))
    /\ sent' = Append(sent, Request(messages'))
    /\ modelCalls' = modelCalls + 1
    /\ err' = None
    /\ pc' = "converse"
    /\ UNCHANGED <<question, max_turns, i, result, action, action_input, ret,
                   stop, prev, actionLog, replies>>
    /\ UNCHANGED <<parseVars, wfVars>>

\* converse returns: __call__ appends the assistant message and returns
agent_returns ==
    /\ pc = "converse"
    /\ \E text \in AgentReplies :
        /\ messages' = Append(messages, AssistantMessage(text))
        /\ result' = Some(text)
        /\ replies' = Append(replies, text)
    /\ pc' = "ready"
    /\ UNCHANGED <<question, max_turns, i, next_prompt, action, action_input,
                   ret, err, stop, prev, modelCalls, actionLog, sent>>
    /\ UNCHANGED <<parseVars, wfVars>>

\* the mutated failure: the user message of the failed call is taken back
agent_fails_rolls_back ==
    /\ pc = "converse"
    /\ messages' = SubSeq(messages, 1, Len(messages) - 1)
    /\ err' = Some([type |-> "ClientError", message |-> <<>>])
    /\ pc' = "ready"
    /\ UNCHANGED <<question, max_turns, i, next_prompt, result, action,
                   action_input, ret, stop, prev, modelCalls, actionLog, sent,
                   replies>>
    /\ UNCHANGED <<parseVars, wfVars>>

\* converse raises: the exception leaves execute and __call__, the session
\* stays as it is
agent_fails ==
    /\ pc = "converse"
    /\ err' = Some([type |-> "ClientError", message |-> <<>>])
    /\ pc' = "ready"
    /\ UNCHANGED <<question, max_turns, i, next_prompt, messages, result, action,
                   action_input, ret, stop, prev, modelCalls, actionLog, sent,
                   replies>>
    /\ UNCHANGED <<parseVars, wfVars>>

AgentNext ==
    \/ agent_call
    \/ agent_returns
    \/ agent_fails

InitAgent == AgentInit /\ ParseIdle /\ WfIdle

SpecAgent == InitAgent /\ [][AgentNext]_vars

\* the calls on the Agent that failed
FailedCalls == Len(sent) - Len(replies) - (IF pc = "converse" THEN 1 ELSE 0)

\* the user messages with no assistant message right after them, the one of
\* a call still under way left out
UnansweredUsers ==
    {k \in 1..Len(messages) :
        /\ messages[k].role = "user"
        /\ IF k = Len(messages) THEN pc = "ready"
           ELSE messages[k + 1].role = "user"}

\* C30: an Agent call appends the user message before it invokes the model
\* and does not remove it when the invocation fails: after a failed call the
\* session ends with a user message that has no assistant reply, and a later
\* successful call on the same Agent leaves two consecutive user messages in
\* the session.
C30_FailedCallKeepsUserMessage ==
    /\ \A t \in 1..Len(sent) :
        /\ sent[t] # <<>>
        /\ sent[t][Len(sent[t])].role = "user"
        /\ IsPrefix(sent[t], messages)
    /\ (pc = "ready" /\ err # None) =>
        /\ messages = sent[Len(sent)]
        /\ messages[Len(messages)] = [role |-> "user", text |-> next_prompt]
    /\ Cardinality(UnansweredUsers) = FailedCalls
    /\ (pc = "ready" /\ err = None /\ FailedCalls > 0) =>
        \E k \in 1..(Len(messages) - 1) :
            /\ messages[k].role = "user"
            /\ messages[k + 1].role = "user"

\* a call failed and the next call on the same Agent was answered
C30_Witness ==
    /\ pc = "ready"
    /\ err = None
    /\ Len(messages) = 3
    /\ messages[1].role = "user"
    /\ messages[2].role = "user"
    /\ messages[3].role = "assistant"

\* the step is a research node execution whose model text holds no payload
\* that parses
MalformedResearchStep ==
    /\ Len(texts') = Len(texts) + 1
    /\ ~HasPayload(texts'[Len(texts')].text)

\* C31: in a research node the payload is located, parsed and validated
\* before the first retrieval call: when the payload is missing or malformed
\* that node execution makes no retrieval call and content is what it was
\* before the node started.
C31_ParseBeforeRetrieval ==
    [][MalformedResearchStep =>
         /\ node \in {"research_plan", "research_critique"}
         /\ retrievals' = retrievals
         /\ state'.content = state.content
         /\ wfModelCalls' = wfModelCalls + 1]_vars

\* research_critique got a text that names a query but holds no payload,
\* after research_plan had retrieved snippets: the calls on record are all
\* research_plan's
C31_Witness ==
    /\ Len(texts) = 2
    /\ texts[2].name = "research_critique"
    /\ ~HasPayload(texts[2].text)
    /\ \E k \in 1..Len(texts[2].text) : texts[2].text[k] \in QueryStrings
    /\ retrievals # <<>>
    /\ \A k \in 1..Len(retrievals) : retrievals[k].node = texts[1].node
    /\ state.content = SnippetsOf(retrievals)
    /\ state.content # <<>>

\* C32: a run with a turn limit of 0 or less makes no model invocation and
\* no action execution, appends nothing to the session, raises no exception,
\* and returns what a run that reached a positive turn limit returns: None.
C32_NoTurnsNoEffect ==
    /\ max_turns <= 0 =>
        /\ pc \in {"idle", "loop", "returned"}
        /\ i = 0
        /\ modelCalls = 0
        /\ sent = <<>>
        /\ actionLog = <<>>
        /\ messages = <<>>
        /\ err = None
        /\ pc = "returned" => (stop = "turn_limit" /\ ret = None)
    /\ (max_turns >= 1 /\ stop = "turn_limit") =>
        (pc = "returned" /\ modelCalls = max_turns /\ ret = None)
    /\ (prev # None /\ prev[1].stop = "turn_limit" /\ stop = "turn_limit") =>
        (~prev[1].raised /\ ret = prev[1].ret)

\* a run with a limit below 1 returned at once, after a run that had been
\* stopped by its limit, with the same result
C32_Witness ==
    /\ max_turns <= 0
    /\ pc = "returned"
    /\ stop = "turn_limit"
    /\ question # <<>>
    /\ prev # None
    /\ prev[1].stop = "turn_limit"
    /\ prev[1].ret = ret

====
